---- MODULE Spec2Model ----
(***************************************************************************)
(* pyPSQC: quality control of an automated prostate segmentation.          *)
(*                                                                         *)
(* psqc() runs prepare_data -> feature_extraction -> quality_prediction.   *)
(* The model follows the Python source statement by statement:             *)
(*   - a volume is a sequence of axial slices, a slice a sequence of       *)
(*     voxels; slice numbers are 0-based as in numpy;                      *)
(*   - a dict is a sequence of [key, value] entries in insertion order;    *)
(*   - a feature name is a sequence of characters, so that the test        *)
(*     "diagnostics" in name is a real substring search;                   *)
(*   - real numbers are exact decimal fixed point: raw scores and          *)
(*     coefficients in thousandths, scores and thresholds in hundredths;   *)
(*   - SimpleITK, pyAutoRef and pyradiomics are collaborators: what they   *)
(*     return is chosen from small sets, and each may raise.               *)
(***************************************************************************)
EXTENDS Integers, Sequences, FiniteSets, TLC

\* ------------------------------------------------------------------ bounds
\* Axial slices of a volume.
NumSlices == 5
\* Voxels of one slice.
VoxPerSlice == 2
\* Longest predictor / coefficient vector drawn for quality_prediction.
MaxLen == 2
\* Longest feature vector drawn for extract_filtered_values.
MaxVec == 2

\* ------------------------------------------------------- program constants
\* get_settings(image_array, mask_array, 64)
NumBins == 64
\* intercept = -589.6493539841075, in thousandths
Intercept == -589649
\* quality_class_threshold=85, in hundredths
DefaultThreshold == 8500

RegionClasses == <<"wholeprostate", "apex", "base">>
FeatureClasses == <<"firstorder", "shape", "glcm", "glrlm", "glszm", "ngtdm", "gldm">>

\* ----------------------------------------------------------------- helpers
Range(s) == {s[i] : i \in DOMAIN s}

RECURSIVE SumSeq(_)
SumSeq(s) == IF Len(s) = 0 THEN 0 ELSE s[1] + SumSeq(Tail(s))

RECURSIVE Flatten(_)
Flatten(ss) == IF Len(ss) = 0 THEN <<>> ELSE ss[1] \o Flatten(Tail(ss))

SeqMax(s) == CHOOSE x \in Range(s) : \A y \in Range(s) : y <= x
SeqMin(s) == CHOOSE x \in Range(s) : \A y \in Range(s) : x <= y

SeqsUpTo(S, n) == UNION {[1..k -> S] : k \in 0..n}

\* ----------------------------------------------------------------- volumes
\* A mask slice is empty, partly labelled 2, or fully labelled 1.
SlicePatterns ==
    { [v \in 1..VoxPerSlice |-> 0],
      [v \in 1..VoxPerSlice |-> IF v = 1 THEN 0 ELSE 2],
      [v \in 1..VoxPerSlice |-> 1] }

Masks == [1..NumSlices -> SlicePatterns]

Images ==
    { [z \in 1..NumSlices |-> [v \in 1..VoxPerSlice |-> 2 * z + v]],
      [z \in 1..NumSlices |-> [v \in 1..VoxPerSlice |-> 5]] }

NoVolume == <<>>

\* sitk.Cast(mask, sitk.sitkUInt8)
Cast(vol) == [z \in DOMAIN vol |-> [v \in DOMAIN vol[z] |-> vol[z][v] % 256]]

\* (mask_array > 0).astype(np.uint8)
Binarize(arr) ==
    [z \in DOMAIN arr |-> [v \in DOMAIN arr[z] |-> IF arr[z][v] > 0 THEN 1 ELSE 0]]

\* mask_array.sum(axis=(1, 2)): one sum per axial slice
SliceSums(arr) == [z \in DOMAIN arr |-> SumSeq(arr[z])]

\* np.nonzero(sums)[0]: the 0-based positions of the nonzero sums, ascending
NpNonzero(sums) ==
    SelectSeq([i \in 1..Len(sums) |-> i - 1], LAMBDA k : sums[k + 1] # 0)

\* np.sum(arr) over the whole volume
VolumeSum(arr) == SumSeq(SliceSums(arr))

\* ------------------------------------------------------ region partitioning
\* Python's s[start:stop] on a sequence: negative bounds count from the end,
\* both are clipped to 0..len(s).
PyIndex(i, n) ==
    LET j == IF i < 0 THEN i + n ELSE i
    IN  IF j < 0 THEN 0 ELSE IF j > n THEN n ELSE j

PySlice(s, start, stop) ==
    SubSeq(s, PyIndex(start, Len(s)) + 1, PyIndex(stop, Len(s)))

\* a third that rounds up instead of down
CeilThird(n) == (n + 2) \div 3

\* math.floor(np.size(nonzero_slices) / 3)
FloorThird(n) == n \div 3

\* nonzero_slices[N - floor(N/3):] with a floor that rounds up instead
BaseStartCeil(n) == n - ((n + 2) \div 3)

\* np.size(nonzero_slices) - math.floor(np.size(nonzero_slices) / 3)
BaseStart(n) == n - FloorThird(n)

\* nonzero_slices[-floor(N/3):], which is the whole array when floor(N/3) = 0
SliceIndicesNegative(region_class, nz) ==
    IF region_class = "apex" THEN PySlice(nz, 0, FloorThird(Len(nz)))
    ELSE IF region_class = "base" THEN PySlice(nz, 0 - FloorThird(Len(nz)), Len(nz))
    ELSE nz

\* the if / elif / else that picks slice_indices for a region class
SliceIndices(region_class, nz) ==
    IF region_class = "apex" THEN PySlice(nz, 0, FloorThird(Len(nz)))
    ELSE IF region_class = "base" THEN PySlice(nz, BaseStart(Len(nz)), Len(nz))
    ELSE nz

\* np.zeros_like(mask_array)
ZerosLike(arr) == [z \in DOMAIN arr |-> [v \in DOMAIN arr[z] |-> 0]]

\* new_mask_array[slice_indices] = mask_array[slice_indices]
AssignSlices(new, arr, idx) ==
    [z \in DOMAIN arr |-> IF (z - 1) \in Range(idx) THEN arr[z] ELSE new[z]]

\* --------------------------------------------------------------- settings
\* image_array_in[mask_array_in != 0], flattened
MaskedIntensities(image_array, mask_array) ==
    Flatten([z \in DOMAIN image_array |->
        LET row == image_array[z]
            sel == mask_array[z]
            keep == SelectSeq([v \in DOMAIN row |-> v], LAMBDA v : sel[v] # 0)
        IN  [i \in DOMAIN keep |-> row[keep[i]]]])

\* the intensity range and the settings dict of get_settings
ComputeSettings(image_array, mask_array, nr_bins) ==
    LET masked == MaskedIntensities(image_array, mask_array)
    IN  [ok |-> TRUE,
         binWidth |-> [num |-> IF Len(masked) = 0 THEN 0
                               ELSE SeqMax(masked) - SeqMin(masked),
                       den |-> nr_bins],
         correctMask |-> TRUE]

\* get_settings with the mask_sum == 0 test left out
GetSettingsUnchecked(image_array, mask_array, nr_bins) ==
    ComputeSettings(image_array, mask_array, nr_bins)

\* get_settings: ok = FALSE stands for
\* ValueError("Mask is empty. Cannot compute intensity range.")
GetSettings(image_array, mask_array, nr_bins) ==
    IF VolumeSum(mask_array) = 0
    THEN [ok |-> FALSE, binWidth |-> [num |-> 0, den |-> nr_bins], correctMask |-> TRUE]
    ELSE ComputeSettings(image_array, mask_array, nr_bins)

\* ------------------------------------------------------------ feature names
Needle == <<"d", "i", "a", "g", "n", "o", "s", "t", "i", "c", "s">>
NameDiagVersions == <<"d", "i", "a", "g", "n", "o", "s", "t", "i", "c", "s", "_", "V">>
NameDiagSuffix == <<"o", "_", "d", "i", "a", "g", "n", "o", "s", "t", "i", "c", "s">>
NameDiagMiddle == <<"a", "_", "d", "i", "a", "g", "n", "o", "s", "t", "i", "c", "s", "_", "b">>
NameCapital == <<"D", "i", "a", "g", "n", "o", "s", "t", "i", "c", "s", "_", "V">>
NameUpper == <<"D", "I", "A", "G", "N", "O", "S", "T", "I", "C", "S">>
NameOriginalA == <<"o", "r", "i", "g", "i", "n", "a", "l", "_", "A">>
NameOriginalB == <<"o", "r", "i", "g", "i", "n", "a", "l", "_", "B">>
NameTruncated == <<"d", "i", "a", "g", "n", "o", "s", "t", "i", "c">>

\* ---------------------------------------------------------------- extractor
ClassIndex(feature_class) ==
    CHOOSE i \in 1..Len(FeatureClasses) : FeatureClasses[i] = feature_class

\* sum of the image intensities under the mask
MaskedTotal(image_array, mask_array) ==
    SumSeq(MaskedIntensities(image_array, mask_array))

\* extractor.execute(image, mask): an OrderedDict, the diagnostics first, then
\* the features of the one enabled class; deterministic in its inputs.
ExtractorExecute(image_array, mask_array, settings, feature_class) ==
    LET base == 1000 * ClassIndex(feature_class) + MaskedTotal(image_array, mask_array)
    IN  << [name |-> NameDiagVersions, value |-> [kind |-> "str", val |-> 0]],
           [name |-> NameOriginalA,
            value |-> [kind |-> "ndarray", val |-> base + 100]],
           [name |-> NameOriginalB,
            value |-> [kind |-> "ndarray", val |-> base + 200 + settings.binWidth.num]] >>

\* if isinstance(feature_vector[key], np.ndarray): float(feature_vector[key])
ConvertArrays(fv) ==
    [i \in DOMAIN fv |->
        [name |-> fv[i].name,
         value |-> IF fv[i].value.kind = "ndarray"
                   THEN [kind |-> "float", val |-> fv[i].value.val]
                   ELSE fv[i].value]]

\* -------------------------------------------------------------------- dicts
\* d[key] = value that puts a new key first
DictSetFront(d, key, value) ==
    <<[key |-> key, value |-> value]>> \o SelectSeq(d, LAMBDA e : e.key # key)

\* d[key] = value: a new key goes last, a known key keeps its place
DictSet(d, key, value) ==
    IF \E i \in DOMAIN d : d[i].key = key
    THEN [i \in DOMAIN d |-> IF d[i].key = key THEN [key |-> key, value |-> value] ELSE d[i]]
    ELSE Append(d, [key |-> key, value |-> value])

\* ---------------------------------------------------- extract_filtered_values
\* Python's  sub in name  on strings
Contains(name, sub) ==
    \E i \in 1..(Len(name) - Len(sub) + 1) : SubSeq(name, i, i + Len(sub) - 1) = sub

\* var_key.startswith("diagnostics") instead of a search at every position
KeepVariablePrefix(var_key) ==
    ~(Len(var_key) >= Len(Needle) /\ SubSeq(var_key, 1, Len(Needle)) = Needle)

\* "diagnostics" not in var_key
KeepVariable(var_key) == ~Contains(var_key, Needle)

\* {var_key: var_value for ... in extracted_features[key].items() if ...}
FilterVector(fv) == SelectSeq(fv, LAMBDA e : KeepVariable(e.name))

\* for key in extracted_features: extracted_features[key] = {...}
FilterDict(d) == [i \in DOMAIN d |-> [key |-> d[i].key, value |-> FilterVector(d[i].value)]]

\* for value in extracted_features.values(): for var_value in value.values():
\*     values_array.append(var_value)
CollectValues(d) ==
    Flatten([i \in DOMAIN d |-> [j \in DOMAIN d[i].value |-> d[i].value[j].value]])

\* np.array(values_array): one string turns every element into a string
NpArray(values) ==
    IF \E i \in DOMAIN values : values[i].kind = "str"
    THEN [i \in DOMAIN values |-> [kind |-> "str", val |-> values[i].val]]
    ELSE [i \in DOMAIN values |-> [kind |-> "float", val |-> values[i].val]]

ExtractFilteredValuesOf(d) == NpArray(CollectValues(FilterDict(d)))

\* ------------------------------------------------------------------ scoring
\* a dot product over the common prefix of the two arrays
NpDotTruncated(predictors, coefs_array) ==
    LET n == IF Len(predictors) < Len(coefs_array) THEN Len(predictors)
             ELSE Len(coefs_array)
    IN  [ok |-> TRUE,
         val |-> SumSeq([i \in 1..n |-> predictors[i].val * coefs_array[i]])]

\* np.dot of two 1-D arrays: ok = FALSE stands for the ValueError
\* "shapes not aligned" (or the type error of a string array)
NpDot(predictors, coefs_array) ==
    IF Len(predictors) # Len(coefs_array)
       \/ \E i \in DOMAIN predictors : predictors[i].kind = "str"
    THEN [ok |-> FALSE, val |-> 0]
    ELSE [ok |-> TRUE,
          val |-> SumSeq([i \in DOMAIN predictors |-> predictors[i].val * coefs_array[i]])]

\* Python's min(a, b) and max(a, b): the first argument unless the second beats it
PyMin(a, b) == IF b < a THEN b ELSE a
PyMax(a, b) == IF b > a THEN b ELSE a

\* a cap that forgets the upper bound
CapScoreNoUpper(score) == PyMax(0, score)

\* max(0, min(quality_score, 100)), in thousandths
CapScore(score) == PyMax(0, PyMin(score, 100000))

\* round(quality_score, 2): thousandths to hundredths; a tie goes to the even
\* hundredth, as rint(x * 100) / 100 does
Round2(x) ==
    LET q == x \div 10
        r == x % 10
    IN  IF r < 5 THEN q
        ELSE IF r > 5 THEN q + 1
        ELSE IF q % 2 = 0 THEN q ELSE q + 1

\* classify_quality with the boundary on the other side
ClassifyQualityInclusive(score, threshold) ==
    IF score <= threshold THEN "NOT Acceptable" ELSE "Acceptable"

\* classify_quality
ClassifyQualityOf(score, threshold) ==
    IF score < threshold THEN "NOT Acceptable" ELSE "Acceptable"

\* what json.load can hand back for model_coef.json, in thousandths
CoefVals == {589649, 7}
PackagedLen == Len(RegionClasses) * Len(FeatureClasses) * 2
CoefArtifacts ==
    SeqsUpTo(CoefVals, MaxLen)
        \cup { [i \in 1..PackagedLen |-> 0],
               [i \in 1..PackagedLen |-> IF i = 1 THEN 600 ELSE 0] }

PredVals == {-1, 1, 5, 15}
Predictors == SeqsUpTo({[kind |-> "float", val |-> x] : x \in PredVals}, MaxLen)

\* thresholds in hundredths
Thresholds == {0, 4, 5, 10000}

\* ------------------------------------------------------------------- state
VARIABLES
    pc,                       \* the statement the program is at
    input_normalized,         \* psqc argument
    quality_class_threshold,  \* psqc argument, in hundredths
    image,                    \* the prepared image volume
    mask,                     \* the prepared mask volume
    region_classes,           \* extract_radiomics_features argument
    feature_classes,          \* extract_radiomics_features argument
    mask_array,               \* the binary mask array
    nonzero_slices,           \* 0-based numbers of the slices with foreground
    region_idx,               \* position of the outer loop in region_classes
    feature_idx,              \* position of the inner loop in feature_classes
    slice_indices,            \* the slices picked for the current region
    new_mask_array,           \* the current region's mask array
    feature_vectors,          \* dict (region, class) -> feature vector
    unfiltered,               \* extracted_features as extract_filtered_values got it
    features_values,          \* the predictor vector
    coefs,                    \* the coefficient list read from model_coef.json
    raw_score,                \* np.dot(...) + intercept, in thousandths
    quality_score,            \* the rounded capped score, in hundredths
    quality_class,            \* "Acceptable" or "NOT Acceptable"
    result,                   \* what psqc / quality_prediction returned
    err,                      \* the exception that left the program, if any
    stages,                   \* the stages psqc has started, in order
    extractor_calls,          \* the calls made to the radiomics extractor
    selections                \* slice_indices of each region processed

psqcVars == <<input_normalized, quality_class_threshold>>
dataVars == <<image, mask>>
loopVars == <<region_classes, feature_classes, mask_array, nonzero_slices,
              region_idx, feature_idx, slice_indices, new_mask_array>>
featVars == <<feature_vectors, unfiltered, features_values>>
scoreVars == <<coefs, raw_score, quality_score, quality_class, result>>
logVars == <<stages, extractor_calls, selections>>

vars == <<pc, psqcVars, dataVars, loopVars, featVars, scoreVars, err, logVars>>

NoError == [type |-> "none", stage |-> "none", at |-> <<>>]
NoResult == <<>>

\* a caller that swallows the exception and runs the statement again
RaiseRetry(type, stage, at) ==
    /\ pc' = pc
    /\ err' = err

\* raise: the exception leaves the running function and every caller
Raise(type, stage, at) ==
    /\ pc' = "error"
    /\ err' = [type |-> type, stage |-> stage, at |-> at]

\* --------------------------------------------- extract_radiomics_features
\* Cast and binarise the mask, find the nonzero slices, start the region loop.
EnterExtractRadiomicsFeatures ==
    /\ pc = "extract_radiomics_features"
    /\ mask' = Cast(mask)
    /\ mask_array' = Binarize(Cast(mask))
    /\ nonzero_slices' = NpNonzero(SliceSums(Binarize(Cast(mask))))
    /\ feature_vectors' = <<>>
    /\ region_idx' = 1
    /\ pc' = "region_loop"
    /\ UNCHANGED <<psqcVars, image, region_classes, feature_classes, feature_idx,
                   slice_indices, new_mask_array, unfiltered, features_values,
                   scoreVars, err, logVars>>

\* for region_class in region_classes: pick the slices, build the region mask
SelectRegion ==
    /\ pc = "region_loop"
    /\ region_idx <= Len(region_classes)
    /\ slice_indices' = SliceIndices(region_classes[region_idx], nonzero_slices)
    /\ new_mask_array' = AssignSlices(ZerosLike(mask_array), mask_array, slice_indices')
    /\ selections' = Append(selections,
                            [region |-> region_classes[region_idx],
                             slice_indices |-> slice_indices'])
    /\ feature_idx' = 1
    /\ pc' = "feature_loop"
    /\ UNCHANGED <<psqcVars, dataVars, region_classes, feature_classes, mask_array,
                   nonzero_slices, region_idx, featVars, scoreVars, err, stages,
                   extractor_calls>>

\* the region loop is exhausted: return feature_vectors
RegionLoopExit ==
    /\ pc = "region_loop"
    /\ region_idx > Len(region_classes)
    /\ pc' = "extract_radiomics_features_return"
    /\ UNCHANGED <<psqcVars, dataVars, loopVars, featVars, scoreVars, err, logVars>>

\* for feature_class in feature_classes: extract_features(image, new_mask,
\* feature_class) and feature_vectors[key] = feature_vector
ExtractFeatures ==
    /\ pc = "feature_loop"
    /\ feature_idx <= Len(feature_classes)
    /\ LET region_class == region_classes[region_idx]
           feature_class == feature_classes[feature_idx]
           settings == GetSettings(image, new_mask_array, NumBins)
           output == ExtractorExecute(image, new_mask_array, settings, feature_class)
       IN  IF ~settings.ok
           THEN /\ Raise("ValueError", "get_settings", <<region_class, feature_class>>)
                /\ UNCHANGED <<feature_vectors, feature_idx, extractor_calls>>
           ELSE \E outcome \in {"return", "raise"} :
                /\ extractor_calls' =
                       Append(extractor_calls,
                              [region |-> region_class, feature_class |-> feature_class,
                               mask_sum |-> VolumeSum(new_mask_array),
                               binWidth |-> settings.binWidth,
                               outcome |-> outcome,
                               output |-> IF outcome = "raise" THEN <<>> ELSE output])
                /\ IF outcome = "raise"
                   THEN /\ Raise("ExtractionError", "extractor",
                                 <<region_class, feature_class>>)
                        /\ UNCHANGED <<feature_vectors, feature_idx>>
                   ELSE /\ feature_vectors' =
                               DictSet(feature_vectors, <<region_class, feature_class>>,
                                       ConvertArrays(output))
                        /\ feature_idx' = feature_idx + 1
                        /\ UNCHANGED <<pc, err>>
    /\ UNCHANGED <<psqcVars, dataVars, region_classes, feature_classes, mask_array,
                   nonzero_slices, region_idx, slice_indices, new_mask_array,
                   unfiltered, features_values, scoreVars, stages, selections>>

\* the feature loop is exhausted: next region
FeatureLoopExit ==
    /\ pc = "feature_loop"
    /\ feature_idx > Len(feature_classes)
    /\ region_idx' = region_idx + 1
    /\ pc' = "region_loop"
    /\ UNCHANGED <<psqcVars, dataVars, region_classes, feature_classes, mask_array,
                   nonzero_slices, feature_idx, slice_indices, new_mask_array,
                   featVars, scoreVars, err, logVars>>

\* extract_radiomics_features called on any volumes and any class lists
RegionLists ==
    { RegionClasses, <<"base", "apex">>, <<"base">>, <<"apex", "wholeprostate">> }

FeatureLists == { <<"firstorder", "shape">>, <<"glcm">>, <<>> }

InitRegions ==
    /\ pc = "extract_radiomics_features"
    /\ input_normalized = FALSE
    /\ quality_class_threshold = DefaultThreshold
    /\ image \in Images
    /\ mask \in Masks
    /\ region_classes \in RegionLists
    /\ feature_classes \in FeatureLists
    /\ mask_array = NoVolume
    /\ nonzero_slices = <<>>
    /\ region_idx = 0
    /\ feature_idx = 0
    /\ slice_indices = <<>>
    /\ new_mask_array = NoVolume
    /\ feature_vectors = <<>>
    /\ unfiltered = <<>>
    /\ features_values = <<>>
    /\ coefs = <<>>
    /\ raw_score = 0
    /\ quality_score = 0
    /\ quality_class = ""
    /\ result = NoResult
    /\ err = NoError
    /\ stages = <<>>
    /\ extractor_calls = <<>>
    /\ selections = <<>>

NextRegions ==
    \/ EnterExtractRadiomicsFeatures
    \/ SelectRegion
    \/ RegionLoopExit
    \/ ExtractFeatures
    \/ FeatureLoopExit

SpecRegions == InitRegions /\ [][NextRegions]_vars

\* ------------------------------------------------------------ prepare_data
\* image = read_sitk_image(input_image_path) or autoref(input_image_path)
PrepareImage ==
    /\ pc = "prepare_data"
    /\ stages' = Append(stages, "prepare_image")
    /\ \/ /\ Raise("InputError",
                   IF input_normalized THEN "read_sitk_image" ELSE "autoref", <<>>)
          /\ UNCHANGED image
       \/ /\ image' \in Images
          /\ pc' = "prepare_mask"
          /\ UNCHANGED err
    /\ UNCHANGED <<psqcVars, mask, loopVars, featVars, scoreVars, extractor_calls,
                   selections>>

\* mask = read_sitk_image(input_mask_path)
PrepareMask ==
    /\ pc = "prepare_mask"
    /\ stages' = Append(stages, "prepare_mask")
    /\ \/ /\ Raise("InputError", "read_sitk_image", <<>>)
          /\ UNCHANGED mask
       \/ /\ mask' \in Masks
          /\ pc' = "feature_extraction"
          /\ UNCHANGED err
    /\ UNCHANGED <<psqcVars, image, loopVars, featVars, scoreVars, extractor_calls,
                   selections>>

\* ------------------------------------------------------ feature_extraction
\* feature_extraction: the fixed class lists, then extract_radiomics_features
FeatureExtraction ==
    /\ pc = "feature_extraction"
    /\ stages' = Append(stages, "feature_extraction")
    /\ region_classes' = RegionClasses
    /\ feature_classes' = FeatureClasses
    /\ pc' = "extract_radiomics_features"
    /\ UNCHANGED <<psqcVars, dataVars, mask_array, nonzero_slices, region_idx,
                   feature_idx, slice_indices, new_mask_array, featVars, scoreVars,
                   err, extractor_calls, selections>>

\* extracted_features = extract_radiomics_features(...) has returned
FeatureExtractionFilter ==
    /\ pc = "extract_radiomics_features_return"
    /\ pc' = "extract_filtered_values"
    /\ UNCHANGED <<psqcVars, dataVars, loopVars, featVars, scoreVars, err, logVars>>

\* extract_filtered_values(extracted_features): filters the dict in place and
\* returns the flattened values
ExtractFilteredValues ==
    /\ pc = "extract_filtered_values"
    /\ unfiltered' = feature_vectors
    /\ feature_vectors' = FilterDict(feature_vectors)
    /\ features_values' = ExtractFilteredValuesOf(feature_vectors)
    /\ pc' = "extract_filtered_values_return"
    /\ UNCHANGED <<psqcVars, dataVars, loopVars, scoreVars, err, logVars>>

\* ------------------------------------------------------ quality_prediction
\* psqc: features_values is back, call quality_prediction
CallQualityPrediction ==
    /\ pc = "extract_filtered_values_return"
    /\ stages' = Append(stages, "quality_prediction")
    /\ pc' = "quality_prediction"
    /\ UNCHANGED <<psqcVars, dataVars, loopVars, featVars, scoreVars, err,
                   extractor_calls, selections>>

\* coefs = read_coef_array_from_json(json_file_name)
ReadCoefs ==
    /\ pc = "quality_prediction"
    /\ \/ /\ \E type \in {"FileNotFoundError", "ValueError"} :
                Raise(type, "read_coef_array_from_json", <<>>)
          /\ UNCHANGED coefs
       \/ /\ coefs' \in CoefArtifacts
          /\ pc' = "calculate_quality_score"
          /\ UNCHANGED err
    /\ UNCHANGED <<psqcVars, dataVars, loopVars, featVars, raw_score, quality_score,
                   quality_class, result, logVars>>

\* quality_score = round(calculate_quality_score(features_values, coefs,
\* intercept), 2)
CalculateQualityScore ==
    /\ pc = "calculate_quality_score"
    /\ LET dot == NpDot(features_values, coefs)
       IN  IF ~dot.ok
           THEN /\ Raise("ValueError", "np.dot", <<>>)
                /\ UNCHANGED <<raw_score, quality_score>>
           ELSE /\ raw_score' = dot.val + Intercept
                /\ quality_score' = Round2(CapScore(dot.val + Intercept))
                /\ pc' = "classify_quality"
                /\ UNCHANGED err
    /\ UNCHANGED <<psqcVars, dataVars, loopVars, featVars, coefs, quality_class,
                   result, logVars>>

\* quality_class = classify_quality(...); return quality_score, quality_class
ClassifyQuality ==
    /\ pc = "classify_quality"
    /\ quality_class' = ClassifyQualityOf(quality_score, quality_class_threshold)
    /\ result' = <<quality_score, quality_class'>>
    /\ pc' = "done"
    /\ UNCHANGED <<psqcVars, dataVars, loopVars, featVars, coefs, raw_score,
                   quality_score, err, logVars>>

\* ------------------------------------------------------------------- psqc
\* psqc(input_image_path, input_mask_path, input_normalized, threshold)
Init ==
    /\ pc = "prepare_data"
    /\ input_normalized \in BOOLEAN
    /\ quality_class_threshold \in {DefaultThreshold}
    /\ image = NoVolume
    /\ mask = NoVolume
    /\ region_classes = <<>>
    /\ feature_classes = <<>>
    /\ mask_array = NoVolume
    /\ nonzero_slices = <<>>
    /\ region_idx = 0
    /\ feature_idx = 0
    /\ slice_indices = <<>>
    /\ new_mask_array = NoVolume
    /\ feature_vectors = <<>>
    /\ unfiltered = <<>>
    /\ features_values = <<>>
    /\ coefs = <<>>
    /\ raw_score = 0
    /\ quality_score = 0
    /\ quality_class = ""
    /\ result = NoResult
    /\ err = NoError
    /\ stages = <<>>
    /\ extractor_calls = <<>>
    /\ selections = <<>>

Next ==
    \/ PrepareImage
    \/ PrepareMask
    \/ FeatureExtraction
    \/ EnterExtractRadiomicsFeatures
    \/ SelectRegion
    \/ RegionLoopExit
    \/ ExtractFeatures
    \/ FeatureLoopExit
    \/ FeatureExtractionFilter
    \/ ExtractFilteredValues
    \/ CallQualityPrediction
    \/ ReadCoefs
    \/ CalculateQualityScore
    \/ ClassifyQuality

Spec == Init /\ [][Next]_vars

\* --------------------- quality_prediction on any predictors and threshold
InitScore ==
    /\ pc = "quality_prediction"
    /\ input_normalized = FALSE
    /\ quality_class_threshold \in Thresholds
    /\ image = NoVolume
    /\ mask = NoVolume
    /\ region_classes = <<>>
    /\ feature_classes = <<>>
    /\ mask_array = NoVolume
    /\ nonzero_slices = <<>>
    /\ region_idx = 0
    /\ feature_idx = 0
    /\ slice_indices = <<>>
    /\ new_mask_array = NoVolume
    /\ feature_vectors = <<>>
    /\ unfiltered = <<>>
    /\ features_values \in Predictors
    /\ coefs = <<>>
    /\ raw_score = 0
    /\ quality_score = 0
    /\ quality_class = ""
    /\ result = NoResult
    /\ err = NoError
    /\ stages = <<>>
    /\ extractor_calls = <<>>
    /\ selections = <<>>

NextScore ==
    \/ ReadCoefs
    \/ CalculateQualityScore
    \/ ClassifyQuality

SpecScore == InitScore /\ [][NextScore]_vars

\* ------------------- extract_filtered_values on any dict of feature vectors
FilterNames ==
    <<NameDiagVersions, NameDiagSuffix, NameDiagMiddle, NameCapital, NameUpper,
      NameOriginalA, NameTruncated>>

NameCode(name) == CHOOSE i \in DOMAIN FilterNames : FilterNames[i] = name

\* the feature vectors of at most n distinct names; the k-th vector's values
\* are 10 * k + the name's code, and the version entry is a string
FilterVectors(n, k) ==
    { [i \in DOMAIN names |->
          [name |-> names[i],
           value |-> [kind |-> IF names[i] = NameDiagVersions THEN "str" ELSE "float",
                      val |-> 10 * k + NameCode(names[i])]]] :
        names \in { ns \in SeqsUpTo(Range(FilterNames), n) :
                        \A i, j \in DOMAIN ns : i # j => ns[i] # ns[j] } }

FilterDicts ==
    { <<[key |-> <<"wholeprostate", "firstorder">>, value |-> v1]>> :
          v1 \in FilterVectors(MaxVec, 1) }
    \cup
    { <<[key |-> <<"wholeprostate", "firstorder">>, value |-> v1],
        [key |-> <<"apex", "shape">>, value |-> v2]>> :
          v1 \in FilterVectors(MaxVec, 1), v2 \in FilterVectors(1, 2) }

InitFilter ==
    /\ pc = "extract_filtered_values"
    /\ input_normalized = FALSE
    /\ quality_class_threshold = DefaultThreshold
    /\ image = NoVolume
    /\ mask = NoVolume
    /\ region_classes = <<>>
    /\ feature_classes = <<>>
    /\ mask_array = NoVolume
    /\ nonzero_slices = <<>>
    /\ region_idx = 0
    /\ feature_idx = 0
    /\ slice_indices = <<>>
    /\ new_mask_array = NoVolume
    /\ feature_vectors \in FilterDicts
    /\ unfiltered = <<>>
    /\ features_values = <<>>
    /\ coefs = <<>>
    /\ raw_score = 0
    /\ quality_score = 0
    /\ quality_class = ""
    /\ result = NoResult
    /\ err = NoError
    /\ stages = <<>>
    /\ extractor_calls = <<>>
    /\ selections = <<>>

NextFilter == ExtractFilteredValues

SpecFilter == InitFilter /\ [][NextFilter]_vars

\* ================================================================== claims

\* ---- shared vocabulary of the claims
\* the selections recorded for one region class
SelectionsOf(region) ==
    { selections[i].slice_indices :
          i \in { j \in DOMAIN selections : selections[j].region = region } }

\* the 0-based numbers of the mask's slices that hold a foreground voxel
ForegroundSlices ==
    { z \in 0..(Len(mask) - 1) : \E v \in DOMAIN mask[z + 1] : mask[z + 1][v] > 0 }

StrictlyAscending(s) == \A i, j \in DOMAIN s : i < j => s[i] < s[j]

\* C1: with N >= 1 nonzero slices, kept in ascending slice order, the region
\* "whole" selects all N entries of nonzero_slices, "apex" exactly its first
\* floor(N/3) entries, and "base" exactly the entries from position
\* N - floor(N/3) to the end, for every N.
C1_RegionSelection ==
    LET N == Len(nonzero_slices)
        k == N \div 3
    IN  (selections # <<>> /\ N >= 1) =>
            /\ StrictlyAscending(nonzero_slices)
            /\ Range(nonzero_slices) = ForegroundSlices
            /\ \A sel \in SelectionsOf("wholeprostate") :
                   /\ Len(sel) = N
                   /\ \A j \in 1..N : sel[j] = nonzero_slices[j]
            /\ \A sel \in SelectionsOf("apex") :
                   /\ Len(sel) = k
                   /\ \A j \in 1..k : sel[j] = nonzero_slices[j]
            /\ \A sel \in SelectionsOf("base") :
                   /\ Len(sel) = k
                   /\ \A j \in 1..k : sel[j] = nonzero_slices[N - k + j]

\* C1 witness: four nonzero slices (not a multiple of 3), all three regions
\* selected, apex and base one slice each.
C1_Witness ==
    /\ Len(nonzero_slices) = 4
    /\ SelectionsOf("wholeprostate") = {nonzero_slices}
    /\ SelectionsOf("apex") = {<<nonzero_slices[1]>>}
    /\ SelectionsOf("base") = {<<nonzero_slices[4]>>}

\* C9 as stated: with N in {1, 2} nonzero slices the apex region selects no
\* slices while the base region still includes all N nonzero slices.
C9_BaseKeepsAllSlices ==
    Len(nonzero_slices) \in {1, 2} =>
        /\ \A sel \in SelectionsOf("apex") : sel = <<>>
        /\ \A sel \in SelectionsOf("base") : sel = nonzero_slices

\* C9 amended: with N in {1, 2} nonzero slices both the apex region and the
\* base region select no slices (base starts at position N of N entries).
C9_BaseAndApexEmpty ==
    Len(nonzero_slices) \in {1, 2} =>
        /\ \A sel \in SelectionsOf("apex") : sel = <<>>
        /\ \A sel \in SelectionsOf("base") : sel = <<>>

\* C9 witness: two nonzero slices, and both apex and base have been selected.
C9_Witness ==
    /\ Len(nonzero_slices) = 2
    /\ SelectionsOf("apex") # {}
    /\ SelectionsOf("base") # {}

\* C10: for every N >= 0 the apex and base selections hold floor(N/3) slices
\* each, share no slice (every apex slice lies below every base slice), and
\* both are subsets of the whole selection.
C10_ApexBaseDisjoint ==
    LET N == Len(nonzero_slices)
    IN  \A a \in SelectionsOf("apex"), b \in SelectionsOf("base") :
            /\ Len(a) = N \div 3
            /\ Len(b) = N \div 3
            /\ Range(a) \cap Range(b) = {}
            /\ \A x \in Range(a), y \in Range(b) : x < y
            /\ Range(a) \subseteq Range(nonzero_slices)
            /\ Range(b) \subseteq Range(nonzero_slices)
            /\ \A w \in SelectionsOf("wholeprostate") :
                   Range(a) \subseteq Range(w) /\ Range(b) \subseteq Range(w)

\* C10 witness: five nonzero slices, apex, base and whole all selected, apex
\* and base nonempty.
C10_Witness ==
    /\ Len(nonzero_slices) = 5
    /\ SelectionsOf("wholeprostate") # {}
    /\ \E a \in SelectionsOf("apex"), b \in SelectionsOf("base") :
           a # <<>> /\ b # <<>>

\* C8: a region mask with no foreground voxel makes get_settings fail with the
\* empty-mask error before the extractor is invoked for that pair; no later
\* pair is processed and no score is produced; a mask with no nonzero slice
\* fails at the first pair (whole, firstorder).
C8_EmptyMaskFailsFirst ==
    /\ \A i \in DOMAIN extractor_calls : extractor_calls[i].mask_sum > 0
    /\ (selections # <<>> /\ VolumeSum(new_mask_array) = 0) =>
           LET region == region_classes[region_idx]
           IN  /\ pc \in {"feature_loop", "error"}
               /\ feature_idx = 1
               /\ Len(selections) = region_idx
               /\ \A i \in DOMAIN extractor_calls : extractor_calls[i].region # region
               /\ \A i \in DOMAIN feature_vectors : feature_vectors[i].key[1] # region
               /\ features_values = <<>>
               /\ result = NoResult
               /\ pc = "error" =>
                      err = [type |-> "ValueError", stage |-> "get_settings",
                             at |-> <<region, feature_classes[1]>>]
    /\ (selections # <<>> /\ nonzero_slices = <<>>) =>
           /\ extractor_calls = <<>>
           /\ Len(selections) = 1
           /\ pc = "error" => err.at = <<"wholeprostate", "firstorder">>

\* C8 witness: the apex mask of a two-slice mask is empty; the call has
\* failed at (apex, firstorder) after the seven extractions of the whole
\* region.
C8_Witness ==
    /\ pc = "error"
    /\ err.stage = "get_settings"
    /\ err.at = <<"apex", "firstorder">>
    /\ Len(nonzero_slices) = 2
    /\ Len(extractor_calls) = Len(FeatureClasses)

\* the values an extractor output contributes: those of the entries that are
\* not the diagnostics entry, in output order
RetainedValues(output) ==
    LET kept == SelectSeq(output, LAMBDA e : e.name # NameDiagVersions)
    IN  [i \in DOMAIN kept |-> kept[i].value.val]

\* C5: the predictor vector is the concatenation of the retained values over
\* the 21 (region, class) pairs, regions [whole, apex, base] outer and the
\* seven classes inner, each pair's values in the extractor's output order.
C5_PredictorOrder ==
    pc = "extract_filtered_values_return" =>
        LET nf == Len(FeatureClasses)
            np == Len(RegionClasses) * nf
        IN  /\ Len(extractor_calls) = np
            /\ \A k \in 1..np :
                   /\ extractor_calls[k].region = RegionClasses[((k - 1) \div nf) + 1]
                   /\ extractor_calls[k].feature_class = FeatureClasses[((k - 1) % nf) + 1]
            /\ [i \in DOMAIN features_values |-> features_values[i].val]
                   = Flatten([k \in 1..np |-> RetainedValues(extractor_calls[k].output)])
            /\ \A i \in DOMAIN features_values : features_values[i].kind = "float"

\* C5 witness: the whole pipeline has extracted and flattened, and the vector
\* holds values of different classes and regions.
C5_Witness ==
    /\ pc = "extract_filtered_values_return"
    /\ Len(features_values) = PackagedLen
    /\ features_values[1].val # features_values[3].val
    /\ features_values[1].val # features_values[PackagedLen - 1].val

\* the names drawn for a feature map that hold "diagnostics" in lower case
LowerCaseDiagnostics == {NameDiagVersions, NameDiagSuffix, NameDiagMiddle}

\* every entry of a dict of feature vectors, in dict and vector order
AllEntries(d) == Flatten([i \in DOMAIN d |-> d[i].value])

\* C6: extract_filtered_values drops exactly the entries whose name contains
\* "diagnostics" (lower case, anywhere in the name) and keeps every other
\* entry, "Diagnostics" and "DIAGNOSTICS" included, in order.
C6_FilterExactlyDiagnostics ==
    pc = "extract_filtered_values_return" =>
        LET kept == SelectSeq(AllEntries(unfiltered),
                              LAMBDA e : e.name \notin LowerCaseDiagnostics)
        IN  /\ [i \in DOMAIN features_values |-> features_values[i].val]
                   = [i \in DOMAIN kept |-> kept[i].value.val]
            /\ AllEntries(feature_vectors) = kept

\* C6 witness: a vector with "a_diagnostics_b" and "Diagnostics_V" went in,
\* and only the value of "Diagnostics_V" came out.
C6_Witness ==
    /\ pc = "extract_filtered_values_return"
    /\ Len(unfiltered) = 1
    /\ [i \in DOMAIN unfiltered[1].value |-> unfiltered[1].value[i].name]
           = <<NameDiagMiddle, NameCapital>>
    /\ [i \in DOMAIN features_values |-> features_values[i].val]
           = <<10 + NameCode(NameCapital)>>

\* the dot product, summed from the last term back
RECURSIVE DotUpTo(_, _, _)
DotUpTo(p, c, n) == IF n = 0 THEN 0 ELSE p[n].val * c[n] + DotUpTo(p, c, n - 1)

Scored == pc \in {"classify_quality", "done"}

\* C2: the score is clamp(dot(predictors, coefs) + intercept, 0, 100) rounded
\* to 2 decimals: always in [0, 100], 0 for a raw score below 0, 100 for one
\* above 100, and the nearest hundredth of the raw score otherwise.
C2_ScoreIsCappedAndRounded ==
    Scored =>
        /\ raw_score = DotUpTo(features_values, coefs, Len(coefs)) + Intercept
        /\ quality_score >= 0
        /\ quality_score <= 10000
        /\ raw_score < 0 => quality_score = 0
        /\ raw_score > 100000 => quality_score = 10000
        /\ (raw_score >= 0 /\ raw_score <= 100000) =>
               /\ 10 * quality_score - raw_score <= 5
               /\ raw_score - 10 * quality_score <= 5
        /\ pc = "done" => result[1] = quality_score

\* C2 witness: a raw score inside (0, 100) that is not a whole hundredth has
\* been scored and returned.
C2_Witness ==
    /\ pc = "done"
    /\ raw_score > 0
    /\ raw_score < 100000
    /\ raw_score % 10 # 0
    /\ result[1] = quality_score

\* C3: classify_quality returns "NOT Acceptable" exactly when the score is
\* below the threshold and "Acceptable" otherwise: score = threshold is
\* Acceptable, score = threshold - 0.01 is NOT Acceptable, nothing else is
\* ever returned.
C3_ClassificationBoundary ==
    pc = "done" =>
        /\ quality_class \in {"Acceptable", "NOT Acceptable"}
        /\ quality_class = "NOT Acceptable" <=> quality_score < quality_class_threshold
        /\ quality_score = quality_class_threshold => quality_class = "Acceptable"
        /\ quality_score = quality_class_threshold - 1 => quality_class = "NOT Acceptable"
        /\ result = <<quality_score, quality_class>>

\* C3 witness: a positive score equal to the threshold was classified.
C3_Witness ==
    /\ pc = "done"
    /\ quality_score > 0
    /\ quality_score = quality_class_threshold
    /\ quality_class = "Acceptable"

\* C4: when the predictor vector and the coefficient vector differ in length,
\* scoring fails with an error and returns no (score, class) pair; no dot
\* product is taken over a truncated or padded vector.
C4_LengthMismatchIsFatal ==
    /\ Scored => Len(features_values) = Len(coefs)
    /\ (pc # "quality_prediction" /\ Len(features_values) # Len(coefs)) =>
           /\ pc \in {"calculate_quality_score", "error"}
           /\ result = NoResult
           /\ raw_score = 0
           /\ quality_class = ""
    /\ (pc = "error" /\ err.stage = "np.dot") =>
           /\ err.type = "ValueError"
           /\ Len(features_values) # Len(coefs)

\* C4 witness: two predictors against a one-value coefficient list have
\* failed in np.dot.
C4_Witness ==
    /\ pc = "error"
    /\ err.stage = "np.dot"
    /\ Len(features_values) = 2
    /\ Len(coefs) = 1
    /\ result = NoResult

StageOrder == <<"prepare_image", "prepare_mask", "feature_extraction", "quality_prediction">>

\* the stage a failing callee belongs to
StagesOfCallee(callee) ==
    CASE callee \in {"autoref"} -> {"prepare_image"}
      [] callee \in {"read_sitk_image"} -> {"prepare_image", "prepare_mask"}
      [] callee \in {"get_settings", "extractor"} -> {"feature_extraction"}
      [] callee \in {"read_coef_array_from_json", "np.dot"} -> {"quality_prediction"}
      [] OTHER -> {}

\* C7: psqc starts its stages in the order image, mask, feature extraction,
\* scoring, each at most once; when a stage fails no later stage is started,
\* no (score, class) pair is returned, and the error the caller sees is the
\* failing stage's own.
C7_StagesInOrderFailFast ==
    /\ Len(stages) <= Len(StageOrder)
    /\ \A i \in DOMAIN stages : stages[i] = StageOrder[i]
    /\ pc # "done" => result = NoResult
    /\ pc = "done" =>
           /\ stages = StageOrder
           /\ result = <<quality_score, quality_class>>
    /\ pc # "error" => err = NoError
    /\ pc = "error" =>
           /\ stages # <<>>
           /\ stages[Len(stages)] \in StagesOfCallee(err.stage)

\* C7 witness: the extractor failed during feature extraction; scoring was
\* never started and nothing was returned.
C7_Witness ==
    /\ pc = "error"
    /\ err.stage = "extractor"
    /\ stages = <<"prepare_image", "prepare_mask", "feature_extraction">>
    /\ result = NoResult

====
